---------------------------- MODULE Spec2Model ----------------------------
(***************************************************************************)
(* Model of sound-reactive-leds/colors.h: the gradient palette table, the  *)
(* active palette list, and the two palette-cycling routines               *)
(* setNextColorPalette and cycleColorPalette.                              *)
(*                                                                         *)
(* colors.h calls four FastLED primitives (addmod8,                        *)
(* nblendPaletteTowardPalette, EVERY_N_SECONDS / EVERY_N_MILLISECONDS and  *)
(* the CRGBPalette16 constructor from a gradient).  Each is modelled by    *)
(* what the FastLED library does at the call site that uses it.            *)
(***************************************************************************)
EXTENDS Integers, Sequences, FiniteSets, TLC

\* ------------------------------------------------------------------------
\* Program constants
\* ------------------------------------------------------------------------

\* #define SECONDS_PER_PALETTE 10
SECONDS_PER_PALETTE == 10

\* EVERY_N_MILLISECONDS(10)
BLEND_PERIOD_MS == 10

\* nblendPaletteTowardPalette(currentPalette, targetPalette, 12)
MAX_CHANGES == 12

\* CRGBPalette16: 16 CRGB entries of 3 bytes (r, g, b) each
PALETTE_ENTRIES == 16

\* sizeof(CRGBPalette16): the number of channel bytes the blend walks over
TotalChannels == PALETTE_ENTRIES * 3

\* uint8_t arithmetic
Byte(x) == x % 256

\* Mutant: the index starts at 0 instead of -1
WhichPaletteInitZero == Byte(0)

\* static uint8_t whichPalette = -1;  (the uint8_t value of -1)
WHICH_PALETTE_INIT == 255

\* uint16_t arithmetic
Word(x) == x % 65536

\* C integer division truncates toward zero
TruncDiv(a, b) == IF a >= 0 THEN a \div b ELSE -((-a) \div b)

Abs(x) == IF x < 0 THEN -x ELSE x

\* ------------------------------------------------------------------------
\* Palette table: the gradient definitions, as <<position, r, g, b>> stops
\* ------------------------------------------------------------------------

_firePalette ==
    << <<0, 255, 0, 0>>, <<50, 139, 0, 0>>, <<100, 0, 0, 0>>,
       <<200, 255, 140, 0>>, <<255, 255, 215, 0>> >>

_tealGreenGold ==
    << <<0, 34, 139, 34>>, <<85, 0, 255, 0>>, <<170, 255, 215, 0>>,
       <<255, 255, 140, 0>> >>

_redRoseLavendar ==
    << <<0, 128, 0, 0>>, <<85, 210, 105, 30>>, <<170, 255, 127, 80>>,
       <<255, 230, 230, 250>> >>

_icePalette ==
    << <<0, 224, 240, 255>>, <<127, 31, 147, 255>>, <<255, 48, 64, 72>> >>

_fairyPalette ==
    << <<0, 63, 57, 11>>, <<127, 127, 114, 22>>, <<224, 255, 227, 45>>,
       <<255, 255, 255, 255>> >>

\* One channel of fill_gradient_RGB: the values written to slots
\* startpos..endpos, stepping an 8.8 fixed-point accumulator by twice the
\* truncated 8.7 per-slot delta.
GradientChannel(startpos, sc, endpos, ec, i) ==
    LET distance87 == (ec - sc) * 128
        pixeldistance == endpos - startpos
        divisor == IF pixeldistance # 0 THEN pixeldistance ELSE 1
        delta87 == TruncDiv(distance87, divisor) * 2
    IN  Word(sc * 256 + (i - startpos) * delta87) \div 256

\* fill_gradient_RGB(entries, startpos, startcolor, endpos, endcolor) on the
\* 16-entry table `entries` (a function 0..15 -> <<r, g, b>>).
FillGradientRGB(entries, startpos, startcolor, endpos, endcolor) ==
    [i \in 0..(PALETTE_ENTRIES - 1) |->
        IF i >= startpos /\ i <= endpos
        THEN << GradientChannel(startpos, startcolor[1], endpos, endcolor[1], i),
                GradientChannel(startpos, startcolor[2], endpos, endcolor[2], i),
                GradientChannel(startpos, startcolor[3], endpos, endcolor[3], i) >>
        ELSE entries[i]]

\* The loop of CRGBPalette16::operator=(gradient): segment k runs from stop k
\* to stop k+1; slots are index / 16, and with fewer than 16 stops a segment
\* never starts on a slot an earlier segment ended on.
RECURSIVE ResolveFrom(_, _, _, _)
ResolveFrom(grad, k, lastSlotUsed, entries) ==
    IF k >= Len(grad) THEN entries
    ELSE LET indexstart == grad[k][1]
             indexend   == grad[k + 1][1]
             rgbstart   == <<grad[k][2], grad[k][3], grad[k][4]>>
             rgbend     == <<grad[k + 1][2], grad[k + 1][3], grad[k + 1][4]>>
             istart0    == indexstart \div 16
             iend0      == indexend \div 16
             bump       == Len(grad) < 16 /\ istart0 <= lastSlotUsed
                              /\ lastSlotUsed < 15
             istart8    == IF bump THEN lastSlotUsed + 1 ELSE istart0
             iend8      == IF bump /\ iend0 < istart8 THEN istart8 ELSE iend0
             last       == IF Len(grad) < 16 THEN iend8 ELSE lastSlotUsed
         IN  ResolveFrom(grad, k + 1, last,
                         FillGradientRGB(entries, istart8, rgbstart, iend8, rgbend))

\* CRGBPalette16 p = gradient: the resolved palette as its 48 channel bytes
\* (entry e's r, g, b at 3e+1, 3e+2, 3e+3), the layout the blend walks over.
ResolvePalette(grad) ==
    LET zero == [i \in 0..(PALETTE_ENTRIES - 1) |-> <<0, 0, 0>>]
        ent  == ResolveFrom(grad, 1, -1, zero)
    IN  [c \in 1..TotalChannels |-> ent[(c - 1) \div 3][((c - 1) % 3) + 1]]

firePalette == ResolvePalette(_firePalette)

tealGreenGold == ResolvePalette(_tealGreenGold)

redRoseLavendar == ResolvePalette(_redRoseLavendar)

icePalette == ResolvePalette(_icePalette)

fairyPalette == ResolvePalette(_fairyPalette)

\* The defined palettes by name; activePalettes holds names (pointers).
PaletteNames ==
    {"firePalette", "tealGreenGold", "redRoseLavendar", "icePalette", "fairyPalette"}

Deref(name) ==
    CASE name = "firePalette"     -> firePalette
      [] name = "tealGreenGold"   -> tealGreenGold
      [] name = "redRoseLavendar" -> redRoseLavendar
      [] name = "icePalette"      -> icePalette
      [] name = "fairyPalette"    -> fairyPalette

\* ------------------------------------------------------------------------
\* Pure functions called by the two routines
\* ------------------------------------------------------------------------

\* The loop of addmod8: while (a >= m) a -= m;
RECURSIVE ReduceBelow(_, _)
ReduceBelow(a, m) == IF a >= m THEN ReduceBelow(a - m, m) ELSE a

\* Mutant: the sum is not cut to 8 bits before it is reduced below m
AddMod8NoWrap(a, b, m) == (a + b) % m

\* addmod8(a, b, m): a += b in uint8_t, then reduce below m
AddMod8(a, b, m) == ReduceBelow(Byte(a + b), m)

\* sizeof(activePalettes) / sizeof(activePalettes[0]) stored in a uint8_t
NumberOfPalettes(active) == Byte(Len(active))

\* Mutant: the index clamps at the last entry instead of wrapping
NextWhichPaletteClamp(active, which) ==
    IF Byte(which + 1) >= NumberOfPalettes(active)
    THEN NumberOfPalettes(active) - 1
    ELSE Byte(which + 1)

\* The index setNextColorPalette moves whichPalette to
NextWhichPalette(active, which) == AddMod8(which, 1, NumberOfPalettes(active))

\* activePalettes[whichPalette] (C arrays are 0-based), dereferenced
ActiveAt(active, which) == Deref(active[which + 1])

\* Mutant: a channel above the target always drops by two
BlendChannelOvershoot(c, t) ==
    IF c = t THEN c ELSE IF c < t THEN c + 1 ELSE Byte(c - 2)

\* One channel byte of nblendPaletteTowardPalette: up by one when below the
\* target, down by one (and by one more when still above) when above it.
BlendChannel(c, t) ==
    IF c = t THEN c
    ELSE IF c < t THEN c + 1
    ELSE IF c - 1 > t THEN c - 2 ELSE c - 1

\* The value of `changes` when the loop of nblendPaletteTowardPalette reaches
\* channel c: the channels before c that differed (each one was changed and
\* counted; equal channels are skipped with `continue`)
ChangesBefore(current, target, c) ==
    Cardinality({d \in 1..(c - 1) : current[d] # target[d]})

\* Mutant: the loop breaks one change late
LoopReachesLate(current, target, maxChanges, c) ==
    ChangesBefore(current, target, c) <= maxChanges

\* Whether the loop reaches channel c: it breaks right after a change that
\* brings `changes` to maxChanges or above
LoopReaches(current, target, maxChanges, c) ==
    \/ ChangesBefore(current, target, c) = 0
    \/ ChangesBefore(current, target, c) < maxChanges

\* Mutant: equal channels are not skipped, and a channel not below its target
\* is lowered
NBlendNoSkip(current, target, maxChanges) ==
    [c \in 1..TotalChannels |->
        IF c <= maxChanges
        THEN (IF current[c] < target[c] THEN current[c] + 1
              ELSE Byte(current[c] - 1))
        ELSE current[c]]

\* Mutant: the blend works on a copy, and the current palette stays as it was
NBlendOnCopy(current, target, maxChanges) == current

\* nblendPaletteTowardPalette(current, target, maxChanges): the new current.
\* Channel c is read and written only when the loop is at c, so each channel
\* the loop reaches is stepped from its own old value.
NBlendPaletteTowardPalette(current, target, maxChanges) ==
    [c \in 1..TotalChannels |->
        IF LoopReaches(current, target, maxChanges, c)
        THEN BlendChannel(current[c], target[c])
        ELSE current[c]]

\* seconds16(): millis() / 1000 as a uint16_t
Seconds16(ms) == Word(ms \div 1000)

\* CEveryNSeconds::getElapsed(): getTime() - mPrevTrigger in uint16_t
ElapsedSeconds(time, prevTrigger) == Word(time - prevTrigger)

\* CEveryNMillis::getElapsed(): getTime() - mPrevTrigger in uint32_t; the
\* clock of the model stays far below 2^32, so the difference never wraps
ElapsedMillis(time, prevTrigger) == time - prevTrigger

\* Mutant: the gate runs with the period 1 of a default-constructed gate
GateReadyDefaultPeriod(elapsed, period) == elapsed >= 1

\* CEveryNSeconds::ready() / CEveryNMillis::ready(): getElapsed() >= mPeriod
GateReady(elapsed, period) == elapsed >= period

\* Largest per-channel distance between two palettes
MaxDistance(a, b) ==
    LET d == {Abs(a[c] - b[c]) : c \in 1..TotalChannels}
    IN  CHOOSE m \in d : \A e \in d : e <= m

\* ------------------------------------------------------------------------
\* State
\* ------------------------------------------------------------------------

VARIABLES
    activePalettes,   \* CRGBPalette16* activePalettes[]: palette names, fixed
    whichPalette,     \* static uint8_t whichPalette
    currentPalette,   \* CRGBPalette16 currentPalette (48 channel bytes)
    targetPalette,    \* CRGBPalette16 targetPalette (48 channel bytes)
    millis,           \* the clock millis() reads
    everySeconds,     \* the static gate of EVERY_N_SECONDS(SECONDS_PER_PALETTE)
    everyMillis,      \* the static gate of EVERY_N_MILLISECONDS(10)
    calls,            \* history: setNextColorPalette calls so far
    blends,           \* history: blend calls since the target was last
                      \*   assigned, made while current differed from target
    startDist,        \* history: MaxDistance(current, target) when the target
                      \*   was last assigned
    fired,            \* history: what the last routine call ran, in order
    lastAdvanceMs,    \* history: millis at the last gated advance (-1: none)
    lastBlendMs,      \* history: millis at the last gated blend (-1: none)
    ticks             \* history: clock advances so far

vars == <<activePalettes, whichPalette, currentPalette, targetPalette, millis,
          everySeconds, everyMillis, calls, blends, startDist, fired,
          lastAdvanceMs, lastBlendMs, ticks>>

\* ------------------------------------------------------------------------
\* Bounds of the model
\* ------------------------------------------------------------------------

\* Clock advances in one behaviour of the timed program
MaxTicks == 6

\* Direct setNextColorPalette calls in one behaviour of BlendSpec
MaxAdvance == 3

\* In BlendSpec the target is switched only while at most this many blend
\* calls have moved current since the target was last assigned
RetargetWindow == 1

\* Direct setNextColorPalette calls in one behaviour of IndexSpec
MaxCalls == 258

\* The amounts of time (ms) that may pass between two calls from the loop
Deltas == {3, 10, 990, 9001}

\* The largest active list a uint8_t numberOfPalettes can count
MAX_PALETTES == 255

\* ------------------------------------------------------------------------
\* Initial states
\* ------------------------------------------------------------------------

\* An active list of length n that walks the defined palettes in the order
\* colors.h defines them
DefinedOrder ==
    <<"firePalette", "tealGreenGold", "redRoseLavendar", "icePalette", "fairyPalette">>

ListOfLength(n) == [i \in 1..n |-> DefinedOrder[((i - 1) % 5) + 1]]

\* The list compiled into colors.h
CompiledList == <<"firePalette">>

\* The state after the globals' initialisers have run, for active list `active`
InitWith(active) ==
    /\ activePalettes = active
    /\ whichPalette = WHICH_PALETTE_INIT
    /\ currentPalette = ActiveAt(active, 0)
    /\ targetPalette = ActiveAt(active, 0)
    /\ millis = 0
    /\ everySeconds = [constructed |-> FALSE, mPrevTrigger |-> 0]
    /\ everyMillis = [constructed |-> FALSE, mPrevTrigger |-> 0]
    /\ calls = 0
    /\ blends = 0
    /\ startDist = 0
    /\ fired = <<>>
    /\ lastAdvanceMs = -1
    /\ lastBlendMs = -1
    /\ ticks = 0

\* The timed program: the compiled list, or the two-palette list [Fire, Ice]
Init == \E active \in {CompiledList, <<"firePalette", "icePalette">>} :
            InitWith(active)

\* Every active-list length a uint8_t can count
InitIndex == \E n \in 1..MAX_PALETTES : InitWith(ListOfLength(n))

\* The palettes the directly-called operations are run on: the compiled one,
\* the darkest and the brightest of the others
BlendNames == {"firePalette", "icePalette", "fairyPalette"}

\* Every active list of one or two of them
InitBlend ==
    \E a \in BlendNames, b \in BlendNames :
        InitWith(IF a = b THEN <<a>> ELSE <<a, b>>)

\* ------------------------------------------------------------------------
\* Operations
\* ------------------------------------------------------------------------

\* The effect of setNextColorPalette() on whichPalette and targetPalette
SetNextEffect ==
    /\ whichPalette' = NextWhichPalette(activePalettes, whichPalette)
    /\ targetPalette' = ActiveAt(activePalettes, whichPalette')
    /\ calls' = calls + 1

\* Mutant: switching the target also copies it into the current palette
CurrentAfterSetNextJump(current, newTarget) == newTarget

\* setNextColorPalette() has no statement that assigns currentPalette: the
\* current palette after the call, given the one before and the new target
CurrentAfterSetNext(current, newTarget) == current

\* The history counter of blend calls stops at a value above every bound
\* stated about it
BlendCap == 4 * 255 + 1

\* One more blend call counted, when it was made with current # target
CountBlend(n, current, target) ==
    IF current # target THEN (IF n < BlendCap THEN n + 1 ELSE n) ELSE n

\* The history of a blend run restarts when the target is assigned: the
\* distance the run starts from
RestartDistance == startDist' = MaxDistance(currentPalette, targetPalette')

\* setNextColorPalette() called directly
SetNextColorPalette ==
    /\ SetNextEffect
    /\ RestartDistance
    /\ blends' = 0
    /\ currentPalette' = CurrentAfterSetNext(currentPalette, targetPalette')
    /\ fired' = <<"advance">>
    /\ UNCHANGED <<activePalettes, millis, everySeconds, everyMillis,
                   lastAdvanceMs, lastBlendMs, ticks>>

\* nblendPaletteTowardPalette(currentPalette, targetPalette, 12) called directly
BlendStep ==
    /\ currentPalette' =
           NBlendPaletteTowardPalette(currentPalette, targetPalette, MAX_CHANGES)
    /\ blends' = CountBlend(blends, currentPalette, targetPalette)
    /\ fired' = <<"blend">>
    /\ UNCHANGED <<activePalettes, whichPalette, targetPalette, millis,
                   everySeconds, everyMillis, calls, startDist, lastAdvanceMs,
                   lastBlendMs, ticks>>

\* Time passes between two calls from the polling loop
Elapse ==
    /\ ticks < MaxTicks
    /\ \E d \in Deltas : millis' = millis + d
    /\ ticks' = ticks + 1
    /\ UNCHANGED <<activePalettes, whichPalette, currentPalette, targetPalette,
                   everySeconds, everyMillis, calls, blends, startDist, fired,
                   lastAdvanceMs, lastBlendMs>>

\* A static gate as the call finds it: constructed on the first pass, with
\* mPrevTrigger the time of construction
GateAtCall(gate, time) ==
    IF gate.constructed THEN gate ELSE [constructed |-> TRUE, mPrevTrigger |-> time]

\* cycleColorPalette(): the seconds gate and setNextColorPalette first, then
\* the milliseconds gate and the blend toward the target as it now is
CycleColorPalette ==
    LET sec      == Seconds16(millis)
        secGate  == GateAtCall(everySeconds, sec)
        advance  == GateReady(ElapsedSeconds(sec, secGate.mPrevTrigger),
                              SECONDS_PER_PALETTE)
        msGate   == GateAtCall(everyMillis, millis)
        blend    == GateReady(ElapsedMillis(millis, msGate.mPrevTrigger),
                              BLEND_PERIOD_MS)
        afterSet == IF advance
                    THEN CurrentAfterSetNext(currentPalette, targetPalette')
                    ELSE currentPalette
    IN  /\ everySeconds' = IF advance THEN [secGate EXCEPT !.mPrevTrigger = sec]
                           ELSE secGate
        /\ IF advance
           THEN SetNextEffect /\ RestartDistance /\ lastAdvanceMs' = millis
           ELSE UNCHANGED <<whichPalette, targetPalette, calls, startDist,
                            lastAdvanceMs>>
        /\ everyMillis' = IF blend THEN [msGate EXCEPT !.mPrevTrigger = millis]
                          ELSE msGate
        /\ IF blend
           THEN /\ currentPalette' = NBlendPaletteTowardPalette(
                                         afterSet, targetPalette', MAX_CHANGES)
                /\ lastBlendMs' = millis
           ELSE /\ currentPalette' = afterSet
                /\ UNCHANGED lastBlendMs
        /\ blends' = IF blend
                     THEN CountBlend(IF advance THEN 0 ELSE blends,
                                     afterSet, targetPalette')
                     ELSE (IF advance THEN 0 ELSE blends)
        /\ fired' = (IF advance THEN <<"advance">> ELSE <<>>)
                    \o (IF blend THEN <<"blend">> ELSE <<>>)
        /\ UNCHANGED <<activePalettes, millis, ticks>>

\* ------------------------------------------------------------------------
\* Specifications
\* ------------------------------------------------------------------------

\* The program as the polling loop runs it
Next == Elapse \/ CycleColorPalette

Spec == Init /\ [][Next]_vars

\* setNextColorPalette called over and over, for every list length
IndexCall == calls < MaxCalls /\ SetNextColorPalette

NextIndex == IndexCall

IndexSpec == InitIndex /\ [][NextIndex]_vars

\* The two operations called directly, in any interleaving
AdvanceCall ==
    /\ calls < MaxAdvance
    /\ blends <= RetargetWindow
    /\ SetNextColorPalette

NextBlend == AdvanceCall \/ BlendStep

BlendSpec == InitBlend /\ [][NextBlend]_vars

\* The polling loop never stops calling the blend
LiveSpec == BlendSpec /\ WF_vars(BlendStep)

\* ------------------------------------------------------------------------
\* Properties
\* ------------------------------------------------------------------------

\* The two-palette list of the scenario
FireIce == <<"firePalette", "icePalette">>

\* Length of the active list
L == Len(activePalettes)

Channels == 1..TotalChannels

CeilDiv(a, b) == (a + b - 1) \div b

Max(a, b) == IF a >= b THEN a ELSE b

\* `new` lies in the closed interval between `old` and `t`
Between(old, new, t) == (old <= new /\ new <= t) \/ (t <= new /\ new <= old)

\* The step is a call of cycleColorPalette in which the seconds gate fired
AdvanceFired == ticks' = ticks /\ calls' = calls + 1

\* The step is a call of cycleColorPalette in which the milliseconds gate fired
BlendFired ==
    ticks' = ticks /\ Len(fired') >= 1 /\ fired'[Len(fired')] = "blend"

\* C1 as stated: with the active list [Fire, Ice], after the first
\* setNextColorPalette call the target is Ice.
C1_TargetIceAfterFirstCall ==
    (activePalettes = FireIce /\ calls = 1) => targetPalette = icePalette

\* C1 amended: with the active list [Fire, Ice] and current = target = Fire
\* at the start, the first setNextColorPalette call wraps the index from 255
\* to 0 and re-selects Fire; the target is Ice after the second call.
C1_TargetIceAfterSecondCall ==
    activePalettes = FireIce =>
        /\ calls = 0 => (targetPalette = firePalette /\ currentPalette = firePalette)
        /\ calls = 1 => (whichPalette = 0 /\ targetPalette = firePalette)
        /\ calls = 2 => (whichPalette = 1 /\ targetPalette = icePalette)

C1_Witness == activePalettes = FireIce /\ calls = 2

\* C2 as stated: after K calls the index is (initial + K) mod L with
\* initial = 255, the sum taken either in full or in 8 bits.
C2_IndexIsInitialPlusK ==
    calls >= 1 =>
        \/ whichPalette = (WHICH_PALETTE_INIT + calls) % L
        \/ whichPalette = Byte(WHICH_PALETTE_INIT + calls) % L

\* C2 amended: after K >= 1 calls on a list of length L the index is
\* (K - 1) mod L: the 8-bit sum wraps once, in the first call (255 + 1 = 0),
\* and the remaining K - 1 calls count on from 0 modulo L.
C2_IndexIsKMinusOne ==
    calls >= 1 => whichPalette = (Byte(WHICH_PALETTE_INIT + 1) + (calls - 1)) % L

C2_Witness == L = 3 /\ calls = 257 /\ whichPalette = 1

\* C3: with the compiled single-entry list [Fire], target and current are
\* Fire in every reachable state.
C3_SingleEntryNoDrift ==
    activePalettes = CompiledList =>
        (targetPalette = firePalette /\ currentPalette = firePalette)

C3_Witness ==
    activePalettes = CompiledList /\ calls >= 1 /\ lastBlendMs >= 0

\* C4: in every step each channel of current ends in the closed interval
\* between its old value and the target's channel: no overshoot, and the
\* distance to the target never grows.
C4_NoOvershoot ==
    [][\A c \in Channels :
          Between(currentPalette[c], currentPalette'[c], targetPalette'[c])]_vars

C4_Witness ==
    fired = <<"blend">> /\ blends > 0 /\ currentPalette # targetPalette

\* C5: a blend call made when current = target leaves current unchanged.
C5_BlendIdempotentAtTarget ==
    [][(fired' = <<"blend">> /\ currentPalette = targetPalette)
          => currentPalette' = currentPalette]_vars

C5_Witness ==
    fired = <<"blend">> /\ blends = 0 /\ currentPalette = targetPalette

\* C6: when the blend keeps being called, current equals the target in every
\* channel again and again: a behaviour of LiveSpec switches the target
\* finitely often, so from every state on the target is at last held fixed,
\* and current then reaches it exactly.
C6_EventuallyAtTarget == []<>(currentPalette = targetPalette)

\* Converged after a full run: no channel moves by more than 2 per call
C6_Witness ==
    /\ startDist > MAX_CHANGES
    /\ blends >= CeilDiv(startDist, 2)
    /\ currentPalette = targetPalette

\* C7 as stated: after ceil(D / 12) blend calls, D the largest per-channel
\* distance when the target was set, current equals the target.
C7_ConvergedAfterCeilDOver12 ==
    currentPalette # targetPalette => blends < CeilDiv(startDist, MAX_CHANGES)

\* C7 amended: a blend call changes at most 12 of the 48 channel bytes, each
\* by 1 upward or by 2 downward (by 1 when it is 1 above), never past the
\* target; with the target held fixed, current equals the target after at
\* most ceil(48 / 12) * D = 4 * D blend calls.
C7_ConvergedAfterFourD ==
    [][/\ Cardinality({c \in Channels : currentPalette'[c] # currentPalette[c]})
             <= MAX_CHANGES
       /\ \A c \in Channels :
             \/ currentPalette'[c] = currentPalette[c]
             \/ /\ currentPalette[c] < targetPalette'[c]
                /\ currentPalette'[c] = currentPalette[c] + 1
             \/ /\ currentPalette[c] > targetPalette'[c]
                /\ currentPalette'[c] =
                       Max(targetPalette'[c], currentPalette[c] - 2)
       /\ currentPalette' # targetPalette' =>
             blends' < CeilDiv(TotalChannels, MAX_CHANGES) * startDist']_vars

C7_Witness ==
    /\ startDist > MAX_CHANGES
    /\ currentPalette = targetPalette
    /\ blends > CeilDiv(startDist, MAX_CHANGES)

C9_IndexInRangeAndSequential ==
    calls >= 1 =>
        /\ whichPalette = (calls - 1) % L
        /\ whichPalette \in 0..(L - 1)
        /\ targetPalette = Deref(activePalettes[((calls - 1) % L) + 1])
        /\ calls = 1 => (whichPalette = 0
                            /\ targetPalette = Deref(activePalettes[1]))

C9_Witness == L = MAX_PALETTES /\ calls = MAX_PALETTES + 1 /\ whichPalette = 0

\* C10: a call that only advances leaves current unchanged; a call that only
\* blends leaves the target and the index unchanged; current changes only in
\* a call that blends, and then by at most 2 per channel, also when the
\* target is switched in the same call.
C10_FrameSeparation ==
    [][/\ (ticks' = ticks /\ fired' = <<"advance">>) =>
              currentPalette' = currentPalette
       /\ (ticks' = ticks /\ fired' = <<"blend">>) =>
              (targetPalette' = targetPalette /\ whichPalette' = whichPalette)
       /\ currentPalette' # currentPalette =>
              /\ BlendFired
              /\ \A c \in Channels :
                    Abs(currentPalette'[c] - currentPalette[c]) <= 2
       /\ (targetPalette' # targetPalette \/ whichPalette' # whichPalette) =>
              AdvanceFired]_vars

C10_Witness ==
    /\ calls = 2
    /\ Len(fired) >= 1
    /\ fired[1] = "advance"
    /\ targetPalette = icePalette
    /\ currentPalette # targetPalette
=============================================================================
